---- MODULE Spec2Model ----
(***************************************************************************)
(* The grouping-records backfill task of                                   *)
(* sentry/tasks/embeddings_grouping/backfill_seer_grouping_records_for_    *)
(* project.py: one task invocation per step, continuation by re-enqueue.  *)
(* The helpers of sentry.tasks.embeddings_grouping.utils are modelled from *)
(* their documented contracts.                                             *)
(***************************************************************************)
EXTENDS Integers, Sequences, FiniteSets

VARIABLES
    started,         \* whether the caller has enqueued the first invocation
    queue,           \* the pending invocations of the task queue
    records,         \* the groups that hold a grouping record
    missing,         \* the projects a lookup has found deleted
    batch_size,      \* option embeddings-grouping.seer.backfill-batch-size
    first,           \* the arguments of the chain's first invocation
    last,            \* the last invocation run: arguments, environment, effect
    visited,         \* the projects the chain has started on, in order
    paths_seen,      \* the branches the chain's invocations returned from
    times_selected,  \* per group, in how many pages it was selected (up to 2)
    times_scored,    \* per group, how often it was sent for scoring (up to 2)
    tick,            \* parity of the number of invocations run
    pool,            \* the worker pool of a multithreaded similarity call
    settings         \* settings.SIMILARITY_BACKFILL_COHORT_MAP as configured now

vars == <<started, queue, records, missing, batch_size, first, last, visited,
          paths_seen, times_selected, times_scored, tick, pool, settings>>

----------------------------------------------------------------------------
(* Bounds of the model. *)
MaxProject == 3
MaxGroup == 3
MaxBatch == 2
MaxThreads == 2

ProjectIds == 1..MaxProject
Groups == 1..MaxGroup

(* Python's None and an optional value: <<>> is None, <<x>> is the value x. *)
None == <<>>
Some(x) == <<x>>

(* The cohort argument: None, a cohort name, or an explicit id list. *)
NoCohort == [kind |-> "none", name |-> "", ids |-> <<>>]
NamedCohort(n) == [kind |-> "name", name |-> n, ids |-> <<>>]
ListCohort(l) == [kind |-> "list", name |-> "", ids |-> l]

(* settings.SIMILARITY_BACKFILL_COHORT_MAP: the configured cohorts. *)
SIMILARITY_BACKFILL_COHORT_MAP == [n \in {"cohort_a"} |-> <<1, 2, 3>>]

(* The primary record store: every error group belongs to one project.     *)
(* Project 1 owns all groups but the last, project 2 the last one, and the *)
(* other projects own none.                                                *)
GroupProject(g) == IF g < MaxGroup THEN 1 ELSE 2
GroupsOf(p) == {g \in Groups : GroupProject(g) = p}

Min(S) == CHOOSE x \in S : \A y \in S : x <= y

RECURSIVE Ascending(_)
Ascending(S) == IF S = {} THEN <<>> ELSE <<Min(S)>> \o Ascending(S \ {Min(S)})

Take(s, n) == SubSeq(s, 1, IF n < Len(s) THEN n ELSE Len(s))

Range(s) == {s[i] : i \in 1..Len(s)}

Filter(s, S) == SelectSeq(s, LAMBDA x : x \in S)

----------------------------------------------------------------------------
(* The task's arguments: one pending invocation. *)
TaskArgs(project_id, last_group, cohort, project_index, only_delete, enable_ingestion) ==
    [current_project_id |-> project_id,
     last_processed_group_id |-> last_group,
     cohort |-> cohort,
     last_processed_project_index |-> project_index,
     only_delete |-> only_delete,
     enable_ingestion |-> enable_ingestion]

(* A gate that consults the global flag only. *)
killswitch_global_only(env) == env.kill_global

(* options.get("seer.similarity-backfill-killswitch.enabled") or           *)
(* killswitch_enabled(current_project_id)                                  *)
killswitch_tripped(env) == env.kill_global \/ env.kill_project

(* initialize_backfill: the project index of a first invocation (None) is  *)
(* position 0 of the cohort; the group cursor is passed through.           *)
initialize_backfill(last_group_input, project_index_input) ==
    [last_processed_group_id |-> last_group_input,
     last_processed_project_index |->
         IF project_index_input = None THEN 0 ELSE project_index_input[1]]

(* get_current_batch_groups_from_postgres: the groups of the project that  *)
(* have no grouping record and an id greater than the cursor, ascending,   *)
(* at most batch_size of them, and the last id of the page; an empty page  *)
(* returns the input cursor.                                               *)
get_current_batch_groups_from_postgres(project, cursor, size, recs) ==
    LET candidates == {g \in GroupsOf(project) \ recs :
                          cursor = None \/ g > cursor[1]}
        page == Take(Ascending(candidates), size)
    IN  [groups |-> page,
         batch_end_id |-> IF page = <<>> THEN cursor ELSE Some(page[Len(page)])]

(* get_data_from_snuba and filter_snuba_results: the groups of the page    *)
(* that have a row in the event index, in page order.                      *)
filter_snuba_results(page, rows) == Filter(page, rows)

(* get_events_from_nodestore: group_hashes_dict, the groups with a row     *)
(* whose event is in the detail store.                                     *)
get_events_from_nodestore(has_snuba_row, blobs) == Range(has_snuba_row) \cap blobs

(* send_group_and_stacktrace_to_seer(_multithreaded): the response. *)
seer_response(groups, env) ==
    [success |-> env.seer_success,
     reason |-> IF env.seer_success THEN None ELSE Some("timeout"),
     results |-> IF env.seer_success THEN Range(groups) ELSE {}]

(* update_groups: each listed group with a result is written, but for the  *)
(* groups whose write fails.                                               *)
update_groups(response, groups, group_hashes_dict, env) ==
    {g \in Range(groups) :
        g \in response.results /\ g \in group_hashes_dict /\ g \notin env.write_fail}

(* delete_seer_grouping_records: the grouping records of the project. *)
delete_seer_grouping_records(project) == GroupsOf(project)

(* get_project_for_batch: the project after position index of the list and *)
(* its position, or None past the end.                                     *)
get_project_for_batch(index, cohort_projects) ==
    IF index + 1 >= Len(cohort_projects)
    THEN [batch_project_id |-> None, last_processed_project_index |-> None]
    ELSE [batch_project_id |-> Some(cohort_projects[index + 1 + 1]),
          last_processed_project_index |-> Some(index + 1)]

(* `not cohort`: None, the empty string and the empty list are falsy. *)
Falsy(cohort) ==
    \/ cohort.kind = "none"
    \/ cohort.kind = "name" /\ cohort.name = ""
    \/ cohort.kind = "list" /\ cohort.ids = <<>>

(* A lookup whose default for an unknown name is a configured list. *)
cohort_projects_with_default(cohort) ==
    IF cohort.kind = "name"
    THEN IF cohort.name \in DOMAIN settings
         THEN settings[cohort.name] ELSE settings["cohort_a"]
    ELSE cohort.ids

(* settings.SIMILARITY_BACKFILL_COHORT_MAP.get(cohort, []) or the list. *)
cohort_projects(cohort) ==
    IF cohort.kind = "name"
    THEN IF cohort.name \in DOMAIN settings
         THEN settings[cohort.name] ELSE <<>>
    ELSE cohort.ids

(* A scheduler that hands the next project the index it was called with. *)
call_next_backfill_keeps_index(last_group, project_id, project_index, cohort, only_delete, enable_ingestion) ==
    IF last_group # None
    THEN [enqueued |-> <<TaskArgs(project_id, last_group, cohort, Some(project_index),
                                  only_delete, enable_ingestion)>>,
          continuation |-> "same_project"]
    ELSE IF Falsy(cohort)
    THEN [enqueued |-> <<>>, continuation |-> "no_cohort"]
    ELSE LET next == get_project_for_batch(project_index, cohort_projects(cohort))
         IN  IF next.batch_project_id = None
             THEN [enqueued |-> <<>>, continuation |-> "end_of_list"]
             ELSE [enqueued |-> <<TaskArgs(next.batch_project_id[1], None, cohort,
                                           Some(project_index),
                                           only_delete, enable_ingestion)>>,
                   continuation |-> "next_project"]

(* A scheduler that starts the list over when it runs past its end. *)
call_next_backfill_wraps(last_group, project_id, project_index, cohort, only_delete, enable_ingestion) ==
    IF last_group # None
    THEN [enqueued |-> <<TaskArgs(project_id, last_group, cohort, Some(project_index),
                                  only_delete, enable_ingestion)>>,
          continuation |-> "same_project"]
    ELSE IF Falsy(cohort)
    THEN [enqueued |-> <<>>, continuation |-> "no_cohort"]
    ELSE LET list == cohort_projects(cohort)
             next == get_project_for_batch(project_index, list)
         IN  IF next.batch_project_id = None /\ list = <<>>
             THEN [enqueued |-> <<>>, continuation |-> "end_of_list"]
             ELSE IF next.batch_project_id = None
             THEN [enqueued |-> <<TaskArgs(list[1], None, cohort, Some(0),
                                           only_delete, enable_ingestion)>>,
                   continuation |-> "next_project"]
             ELSE [enqueued |-> <<TaskArgs(next.batch_project_id[1], None, cohort,
                                           next.last_processed_project_index,
                                           only_delete, enable_ingestion)>>,
                   continuation |-> "next_project"]

(* A scheduler that forgets the cursor when it continues a project. *)
call_next_backfill_restarts(last_group, project_id, project_index, cohort, only_delete, enable_ingestion) ==
    IF last_group # None
    THEN [enqueued |-> <<TaskArgs(project_id, None, cohort, Some(project_index),
                                  only_delete, enable_ingestion)>>,
          continuation |-> "same_project"]
    ELSE IF Falsy(cohort)
    THEN [enqueued |-> <<>>, continuation |-> "no_cohort"]
    ELSE LET next == get_project_for_batch(project_index, cohort_projects(cohort))
         IN  IF next.batch_project_id = None
             THEN [enqueued |-> <<>>, continuation |-> "end_of_list"]
             ELSE [enqueued |-> <<TaskArgs(next.batch_project_id[1], None, cohort,
                                           next.last_processed_project_index,
                                           only_delete, enable_ingestion)>>,
                   continuation |-> "next_project"]

(* call_next_backfill: the invocations it enqueues (none or one) and which *)
(* branch did.                                                             *)
call_next_backfill(last_group, project_id, project_index, cohort, only_delete, enable_ingestion) ==
    IF last_group # None
    THEN [enqueued |-> <<TaskArgs(project_id, last_group, cohort, Some(project_index),
                                  only_delete, enable_ingestion)>>,
          continuation |-> "same_project"]
    ELSE IF Falsy(cohort)
    THEN [enqueued |-> <<>>, continuation |-> "no_cohort"]
    ELSE LET next == get_project_for_batch(project_index, cohort_projects(cohort))
         IN  IF next.batch_project_id = None
             THEN [enqueued |-> <<>>, continuation |-> "end_of_list"]
             ELSE [enqueued |-> <<TaskArgs(next.batch_project_id[1], None, cohort,
                                           next.last_processed_project_index,
                                           only_delete, enable_ingestion)>>,
                   continuation |-> "next_project"]

----------------------------------------------------------------------------
(* What one invocation did: the branch it returned from, the stores and    *)
(* services it touched, the page it selected, the groups left by the two   *)
(* event filters, the groups it sent to the                                 *)
(* similarity service, the groups it handed to update_groups, the records  *)
(* it wrote and deleted, the invocations                                   *)
(* it enqueued, and whether it captured an exception or raised one.        *)
NoEffect ==
    [path |-> "none", reads |-> {}, page |-> <<>>, batch_end_id |-> None,
     has_snuba_row |-> <<>>, group_hashes_dict |-> {},
     sent |-> <<>>, mode |-> "none", applied |-> <<>>, written |-> {},
     deleted |-> {},
     enqueued |-> <<>>, continuation |-> "none", captured |-> FALSE,
     raised |-> FALSE]

(* An early exit without its return: the code runs on to the later call of *)
(* call_next_backfill, and the continuation is enqueued a second time.     *)
Continue_without_return(effect, next) ==
    [effect EXCEPT !.enqueued = next.enqueued \o next.enqueued,
                   !.continuation = next.continuation]

Continue(effect, next) ==
    [effect EXCEPT !.enqueued = next.enqueued, !.continuation = next.continuation]

(* A FeatureError handled as a missing project is: the walk moves on. *)
no_feature_moves_on(a) ==
    Continue([NoEffect EXCEPT !.path = "no_feature",
                              !.reads = {"killswitch", "project"}],
             call_next_backfill(None, a.current_project_id,
                                IF a.last_processed_project_index = None THEN 0
                                ELSE a.last_processed_project_index[1],
                                a.cohort, a.only_delete, a.enable_ingestion))

(* Lines 79-85: initialize_backfill raised FeatureError; logged, return. *)
no_feature(a) ==
    [NoEffect EXCEPT !.path = "no_feature", !.reads = {"killswitch", "project"}]

(* Lines 86-100: the project lookup raised Project.DoesNotExist. The       *)
(* assertion raises when the invocation carries no project index.          *)
project_does_not_exist(a) ==
    LET looked == [NoEffect EXCEPT !.path = "project_does_not_exist",
                                   !.reads = {"killswitch", "project"}]
    IN  IF a.last_processed_project_index = None
        THEN [looked EXCEPT !.raised = TRUE]
        ELSE Continue(looked,
                      call_next_backfill(None, a.current_project_id,
                                         a.last_processed_project_index[1],
                                         a.cohort, a.only_delete, a.enable_ingestion))

(* An only_delete branch that leaves only_delete at its default. *)
deleted_all_records_drops_flag(a, index) ==
    Continue([NoEffect EXCEPT !.path = "deleted_all_records",
                              !.reads = {"killswitch", "project", "delete"},
                              !.deleted = delete_seer_grouping_records(a.current_project_id)],
             call_next_backfill(None, a.current_project_id, index, a.cohort,
                                FALSE, a.enable_ingestion))

(* An only_delete branch that returns after the deletion. *)
deleted_all_records_returns(a, index) ==
    [NoEffect EXCEPT !.path = "deleted_all_records",
                     !.reads = {"killswitch", "project", "delete"},
                     !.deleted = delete_seer_grouping_records(a.current_project_id)]

(* Lines 102-116: only_delete. *)
deleted_all_records(a, index) ==
    Continue([NoEffect EXCEPT !.path = "deleted_all_records",
                              !.reads = {"killswitch", "project", "delete"},
                              !.deleted = delete_seer_grouping_records(a.current_project_id)],
             call_next_backfill(None, a.current_project_id, index, a.cohort,
                                a.only_delete, a.enable_ingestion))

(* A continuation that leaves enable_ingestion at its default, as it does   *)
(* only_delete.                                                            *)
next_backfill_drops_ingestion(a, index, batch_end_id) ==
    call_next_backfill(batch_end_id, a.current_project_id, index, a.cohort,
                       FALSE, FALSE)

(* A continuation that goes back to the cursor the invocation came with. *)
next_backfill_at_input_cursor(a, index, batch_end_id) ==
    call_next_backfill(a.last_processed_group_id, a.current_project_id, index,
                       a.cohort, FALSE, a.enable_ingestion)

(* Lines 125-131, 142-148, 155-161 and 208-214: the continuation after a   *)
(* batch, with the batch's end id as the cursor and only_delete defaulted. *)
next_backfill_after_batch(a, index, batch_end_id) ==
    call_next_backfill(batch_end_id, a.current_project_id, index, a.cohort,
                       FALSE, a.enable_ingestion)

(* A failure branch without its return: the continuation is enqueued. *)
seer_failed_falls_through(scored, next) ==
    Continue([scored EXCEPT !.path = "seer_failed", !.captured = TRUE], next)

(* A failure branch reached after the first result was already written. *)
seer_failed_after_partial_write(scored, next) ==
    [scored EXCEPT !.path = "seer_failed", !.captured = TRUE,
                   !.written = {scored.sent[1]}]

(* Lines 183-193: the response's success is false. *)
seer_failed(scored, next) ==
    [scored EXCEPT !.path = "seer_failed", !.captured = TRUE]

(* A write-back that gives up its continuation when a group's write failed. *)
updated_stops_on_write_failure(scored, written, next) ==
    LET wrote == [scored EXCEPT !.path = "updated",
                                !.reads = @ \cup {"update"},
                                !.written = written]
    IN  IF written = Range(scored.sent) THEN Continue(wrote, next) ELSE wrote

(* Lines 195-214: the results are written and the continuation enqueued. *)
updated(scored, written, next) ==
    Continue([scored EXCEPT !.path = "updated",
                            !.reads = @ \cup {"update"},
                            !.written = written],
             next)

(* A list that keeps every group with a row in the event index. *)
has_snuba_row_unfiltered(has_snuba_row, group_hashes_dict) == has_snuba_row

(* Lines 164-168: the groups with a row that are keys of group_hashes_dict, *)
(* in the order of the list.                                               *)
has_snuba_row_and_nodestore_row(has_snuba_row, group_hashes_dict) ==
    Filter(has_snuba_row, group_hashes_dict)

(* backfill_seer_grouping_records_for_project, lines 41-214. *)
backfill_seer_grouping_records_for_project(a, env, recs, size) ==
    IF killswitch_tripped(env)
    THEN [NoEffect EXCEPT !.path = "killswitch_enabled", !.reads = {"killswitch"}]
    ELSE IF env.init = "FeatureError"
    THEN no_feature(a)
    ELSE IF env.init = "DoesNotExist"
    THEN project_does_not_exist(a)
    ELSE
    LET init == initialize_backfill(a.last_processed_group_id,
                                    a.last_processed_project_index)
        index == init.last_processed_project_index
        project == a.current_project_id
    IN
    IF a.only_delete
    THEN deleted_all_records(a, index)
    ELSE
    LET batch == get_current_batch_groups_from_postgres(
                     project, init.last_processed_group_id, size, recs)
        selected == [NoEffect EXCEPT !.reads = {"killswitch", "project", "select"},
                                     !.page = batch.groups,
                                     !.batch_end_id = batch.batch_end_id]
        next == next_backfill_after_batch(a, index, batch.batch_end_id)
    IN
    IF Len(batch.groups) = 0
    THEN Continue([selected EXCEPT !.path = "no_groups"], next)
    ELSE
    LET has_snuba_row == filter_snuba_results(batch.groups, env.rows)
        fetched == [selected EXCEPT !.reads = @ \cup {"snuba"},
                                    !.has_snuba_row = has_snuba_row]
    IN
    IF Len(has_snuba_row) = 0
    THEN Continue([fetched EXCEPT !.path = "no_snuba_rows"], next)
    ELSE
    LET group_hashes_dict == get_events_from_nodestore(has_snuba_row, env.blobs)
        resolved == [fetched EXCEPT !.reads = @ \cup {"nodestore"},
                                    !.group_hashes_dict = group_hashes_dict]
    IN
    IF group_hashes_dict = {}
    THEN Continue([resolved EXCEPT !.path = "no_nodestore_events"], next)
    ELSE
    LET to_send == has_snuba_row_and_nodestore_row(has_snuba_row, group_hashes_dict)
        response == seer_response(to_send, env)
        scored == [resolved EXCEPT
                      !.reads = @ \cup {"seer"},
                      !.sent = to_send,
                      !.mode = IF env.threads > 1 THEN "multithreaded" ELSE "sequential"]
    IN
    IF ~response.success
    THEN seer_failed(scored, next)
    ELSE updated([scored EXCEPT !.applied = to_send],
                 update_groups(response, to_send, group_hashes_dict, env),
                 next)

----------------------------------------------------------------------------
(* What one invocation reads from its environment: the two kill switches,  *)
(* the outcome of initialize_backfill's project lookup and feature check,  *)
(* the groups with a row in the event index, the groups with an event in   *)
(* the detail store, the configured thread count, the similarity service's *)
(* success flag and the groups whose result write fails. Quiet is the      *)
(* environment in which nothing is tripped, missing or failing.            *)
(* EnvsFor is the environments an invocation can meet, up to the parts it  *)
(* cannot read: the event stores answer for groups of the selected page    *)
(* only, and a project that was found missing stays missing.               *)
Quiet ==
    [kill_global |-> FALSE, kill_project |-> FALSE, init |-> "ok", rows |-> {},
     blobs |-> {}, threads |-> 1, seer_success |-> TRUE, write_fail |-> {}]

EnvsFor(a, recs, gone, size) ==
    LET page == Range(get_current_batch_groups_from_postgres(
                          a.current_project_id, a.last_processed_group_id,
                          size, recs).groups)
    IN  {[Quiet EXCEPT !.kill_global = g, !.kill_project = p] :
            <<g, p>> \in (BOOLEAN \X BOOLEAN) \ {<<FALSE, FALSE>>}}
        \cup {[Quiet EXCEPT !.init = "DoesNotExist"]}
        \cup (IF a.current_project_id \in gone THEN {} ELSE
              {[Quiet EXCEPT !.init = "FeatureError"]}
              \cup UNION {UNION {
                      {[Quiet EXCEPT !.rows = r, !.blobs = b, !.threads = t,
                                     !.seer_success = s, !.write_fail = w] :
                           t \in 1..MaxThreads, s \in BOOLEAN, w \in SUBSET b} :
                      b \in SUBSET r} : r \in SUBSET page})

(* The inputs of a chain's first invocation. *)
Cohorts ==
    {NoCohort, NamedCohort("cohort_a"), NamedCohort("unknown"),
     ListCohort(<<2, 1>>), ListCohort(<<>>)}

FirstInvocations ==
    {TaskArgs(p, None, c, i, d, e) :
        p \in ProjectIds, c \in Cohorts, i \in {None, Some(1), Some(MaxProject)},
        d \in BOOLEAN, e \in BOOLEAN}

(* The worker pool of send_group_and_stacktrace_to_seer_multithreaded: the  *)
(* groups of the call, the groups whose service call fails, the number of  *)
(* workers, the groups not yet taken by a worker, the groups whose call is *)
(* running, the groups in the order their calls completed, the per-group   *)
(* output mapping (TRUE for a scored group) and, once the call has         *)
(* returned, its response.                                                 *)
PoolIdle ==
    [phase |-> "idle", groups |-> <<>>, fails |-> {}, threads |-> 0,
     pending |-> <<>>, running |-> {}, completed |-> <<>>, outcome |-> <<>>,
     response |-> [success |-> TRUE, reason |-> None, results |-> {}]]

(* The lists of groups a call can be made with: non-empty and ascending. *)
GroupLists ==
    {l \in UNION {[1..n -> Groups] : n \in 1..MaxGroup} :
        \A i, j \in 1..Len(l) : i < j => l[i] < l[j]}

(* A pool that returns as soon as one worker has failed. *)
pool_joined_on_first_failure(p) ==
    \/ p.pending = <<>> /\ p.running = {}
    \/ \E g \in DOMAIN p.outcome : ~p.outcome[g]

(* The pool's join: every dispatched call has been taken and has finished. *)
pool_joined(p) == p.pending = <<>> /\ p.running = {}

(* A join that reports the outcome of the worker that completed last. *)
pool_response_of_last_worker(p) ==
    LET ok == p.outcome[p.completed[Len(p.completed)]]
    IN  [success |-> ok,
         reason |-> IF ok THEN None ELSE Some("timeout"),
         results |-> IF ok THEN DOMAIN p.outcome ELSE {}]

(* The response joined from the output mapping: a single failed call makes *)
(* success false, and then no result is credited.                          *)
pool_response(p) ==
    LET ok == \A g \in DOMAIN p.outcome : p.outcome[g]
    IN  [success |-> ok,
         reason |-> IF ok THEN None ELSE Some("timeout"),
         results |-> IF ok THEN DOMAIN p.outcome ELSE {}]

Bump(count, S) == [g \in Groups |-> IF g \in S /\ count[g] < 2 THEN count[g] + 1 ELSE count[g]]

Idle == TaskArgs(1, None, NoCohort, None, FALSE, FALSE)

Init ==
    /\ started = FALSE
    /\ first = Idle
    /\ queue = <<>>
    /\ records = {}
    /\ missing = {}
    /\ batch_size = 0
    /\ last = [args |-> Idle, env |-> Quiet, effect |-> NoEffect]
    /\ visited = <<>>
    /\ paths_seen = {}
    /\ times_selected = [g \in Groups |-> 0]
    /\ times_scored = [g \in Groups |-> 0]
    /\ tick = 0
    /\ pool = PoolIdle
    /\ settings = SIMILARITY_BACKFILL_COHORT_MAP

(* An environment whose unread parts are at their defaults, so that two    *)
(* invocations differ only by what they read.                              *)
Read(env, effect) ==
    /\ "project" \notin effect.reads => env.init = "ok"
    /\ env.rows = (IF "snuba" \in effect.reads THEN env.rows \cap Range(effect.page) ELSE {})
    /\ env.blobs = (IF "nodestore" \in effect.reads
                    THEN env.blobs \cap Range(effect.has_snuba_row) ELSE {})
    /\ "seer" \notin effect.reads => env.threads = 1 /\ env.seer_success
    /\ env.write_fail = (IF "update" \in effect.reads
                         THEN env.write_fail \cap Range(effect.sent) ELSE {})

(* The caller starts a chain: it enqueues the first invocation, with a null *)
(* group cursor, against some contents of the record store and some        *)
(* configured batch size.                                                  *)
Start ==
    /\ ~started
    /\ started' = TRUE
    /\ first' \in FirstInvocations
    /\ queue' = <<first'>>
    /\ records' \in SUBSET Groups
    /\ batch_size' \in 0..MaxBatch
    /\ last' = [args |-> first', env |-> Quiet, effect |-> NoEffect]
    /\ UNCHANGED <<missing, visited, paths_seen, times_selected, times_scored, tick,
                   pool, settings>>

(* A worker takes the pending invocation and runs the task to its return. *)
Run ==
    /\ queue # <<>>
    /\ \E env \in EnvsFor(Head(queue), records, missing, batch_size) :
        LET a == Head(queue)
            effect == backfill_seer_grouping_records_for_project(a, env, records, batch_size)
            starts == last.effect.path = "none" \/ last.effect.continuation = "next_project"
        IN  /\ Read(env, effect)
            /\ queue' = Tail(queue) \o effect.enqueued
            /\ records' = (records \ effect.deleted) \cup effect.written
            /\ missing' = IF env.init = "DoesNotExist"
                          THEN missing \cup {a.current_project_id} ELSE missing
            /\ last' = [args |-> a, env |-> env, effect |-> effect]
            /\ visited' = IF starts /\ effect.path # "killswitch_enabled"
                          THEN Append(visited, a.current_project_id) ELSE visited
            /\ paths_seen' = paths_seen \cup {effect.path}
                    \cup (IF effect.raised THEN {"raised"} ELSE {})
                    \cup (IF "update" \in effect.reads /\ effect.written # Range(effect.sent)
                          THEN {"write_failed"} ELSE {})
            /\ times_selected' = Bump(times_selected, Range(effect.page))
            /\ times_scored' = Bump(times_scored, Range(effect.sent))
            /\ tick' = 1 - tick
            /\ UNCHANGED <<started, batch_size, first, pool, settings>>

Next == Start \/ Run

Spec == Init /\ [][Next]_vars

(* A pending invocation is delivered to a worker: a Run step, seen on the   *)
(* delivery bit alone.                                                     *)
Delivered == queue # <<>> /\ tick' = 1 - tick

FairSpec == Spec /\ WF_tick(Delivered)

(* After a batch failed at the similarity service and its chain stopped,   *)
(* the task is triggered again with the arguments of the failed            *)
(* invocation; a batch is tried again once.                                *)
Retrigger ==
    /\ started
    /\ last.effect.path = "seer_failed"
    /\ queue = <<>>
    /\ \A g \in Range(last.effect.sent) : times_scored[g] < 2
    /\ queue' = <<last.args>>
    /\ UNCHANGED <<started, records, missing, batch_size, first, last, visited,
                   paths_seen, times_selected, times_scored, tick, pool, settings>>

RetriggerNext == Start \/ Run \/ Retrigger

RetriggerSpec == Init /\ [][RetriggerNext]_vars

(* The steps of a complete invocation in the order the code takes them:    *)
(* the stores and services it reads or writes, and last, on the branches   *)
(* that continue, the apply_async of call_next_backfill.                   *)
StageOrder ==
    <<"killswitch", "project", "delete", "select", "snuba", "nodestore", "seer",
      "update">>

(* An order of steps in which the continuation is enqueued before the      *)
(* results are written or the records deleted.                             *)
stages_enqueue_before_write(effect) ==
    LET early == SelectSeq(StageOrder, LAMBDA x : x \in effect.reads \ {"update", "delete"})
        late == SelectSeq(StageOrder, LAMBDA x : x \in effect.reads \cap {"update", "delete"})
    IN  early \o (IF effect.enqueued # <<>> THEN <<"enqueue">> ELSE <<>>) \o late

stages(effect) ==
    SelectSeq(StageOrder, LAMBDA x : x \in effect.reads)
        \o (IF effect.enqueued # <<>> THEN <<"enqueue">> ELSE <<>>)

(* What an invocation has done when it is stopped during its step k + 1:   *)
(* its first k steps, and of a deletion or a write-back in progress any    *)
(* part.                                                                   *)
aborted(effect, k, part) ==
    LET st == stages(effect)
        done == {st[i] : i \in 1..k}
        doing == st[k + 1]
        Seen(stage, value, blank) == IF stage \in done THEN value ELSE blank
    IN  [path |-> "aborted",
         reads |-> done \ {"enqueue"},
         page |-> Seen("select", effect.page, <<>>),
         batch_end_id |-> Seen("select", effect.batch_end_id, None),
         has_snuba_row |-> Seen("snuba", effect.has_snuba_row, <<>>),
         group_hashes_dict |-> Seen("nodestore", effect.group_hashes_dict, {}),
         sent |-> Seen("seer", effect.sent, <<>>),
         mode |-> Seen("seer", effect.mode, "none"),
         applied |-> IF doing = "update" THEN effect.applied
                     ELSE Seen("update", effect.applied, <<>>),
         written |-> IF doing = "update" THEN effect.written \cap part
                     ELSE Seen("update", effect.written, {}),
         deleted |-> IF doing = "delete" THEN effect.deleted \cap part
                     ELSE Seen("delete", effect.deleted, {}),
         enqueued |-> Seen("enqueue", effect.enqueued, <<>>),
         continuation |-> Seen("enqueue", effect.continuation, "none"),
         captured |-> FALSE,
         raised |-> TRUE]

(* The environment as far as the steps in `reads` have read it. *)
ReadSoFar(env, reads) ==
    [kill_global |-> "killswitch" \in reads /\ env.kill_global,
     kill_project |-> "killswitch" \in reads /\ env.kill_project,
     init |-> IF "project" \in reads THEN env.init ELSE "ok",
     rows |-> IF "snuba" \in reads THEN env.rows ELSE {},
     blobs |-> IF "nodestore" \in reads THEN env.blobs ELSE {},
     threads |-> IF "seer" \in reads THEN env.threads ELSE 1,
     seer_success |-> "seer" \in reads => env.seer_success,
     write_fail |-> IF "seer" \in reads THEN env.write_fail ELSE {}]

(* Lines 32-40, soft_time_limit and time_limit: the worker stops the       *)
(* invocation before it has taken its last step.                           *)
Abort ==
    /\ queue # <<>>
    /\ \E env \in EnvsFor(Head(queue), records, missing, batch_size) :
        LET a == Head(queue)
            whole == backfill_seer_grouping_records_for_project(a, env, records,
                                                                batch_size)
        IN  /\ Read(env, whole)
            /\ \E k \in 0..(Len(stages(whole)) - 1) :
               \E part \in (IF stages(whole)[k + 1] \in {"update", "delete"}
                             THEN SUBSET (whole.written \cup whole.deleted)
                             ELSE {{}}) :
                LET effect == aborted(whole, k, part)
                IN  /\ queue' = Tail(queue) \o effect.enqueued
                    /\ records' = (records \ effect.deleted) \cup effect.written
                    /\ last' = [args |-> a, env |-> ReadSoFar(env, effect.reads),
                                effect |-> effect]
                    /\ paths_seen' = paths_seen \cup {"aborted"}
                    /\ tick' = 1 - tick
    /\ UNCHANGED <<started, missing, batch_size, first, visited, times_selected,
                   times_scored, pool, settings>>

AbortNext == Start \/ Run \/ Abort

AbortSpec == Init /\ [][AbortNext]_vars

(* The list configured for a cohort name is changed while a chain runs. *)
ReconfiguredList == <<1, 3, 2>>

Reconfigure ==
    /\ queue # <<>>
    /\ settings = SIMILARITY_BACKFILL_COHORT_MAP
    /\ settings' = [settings EXCEPT !["cohort_a"] = ReconfiguredList]
    /\ UNCHANGED <<started, queue, records, missing, batch_size, first, last,
                   visited, paths_seen, times_selected, times_scored, tick, pool>>

ReconfigureNext == Start \/ Run \/ Reconfigure

ReconfigureSpec == Init /\ [][ReconfigureNext]_vars

(* Lines 170-181 with more than one thread configured: the call of         *)
(* send_group_and_stacktrace_to_seer_multithreaded, seen worker by worker. *)
(* The call dispatches one service call per group, at most `threads` of    *)
(* them run at a time, each writes its own key of the output mapping, and  *)
(* the call returns the joined response.                                   *)
PoolDispatch ==
    /\ pool.phase = "idle"
    /\ \E groups \in GroupLists, threads \in 2..MaxThreads :
        \E fails \in SUBSET Range(groups) :
            pool' = [PoolIdle EXCEPT !.phase = "dispatched", !.groups = groups,
                                     !.fails = fails, !.threads = threads,
                                     !.pending = groups]
    /\ UNCHANGED <<started, queue, records, missing, batch_size, first, last,
                   visited, paths_seen, times_selected, times_scored, tick, settings>>

WorkerStart ==
    /\ pool.phase = "dispatched"
    /\ pool.pending # <<>>
    /\ Cardinality(pool.running) < pool.threads
    /\ pool' = [pool EXCEPT !.pending = Tail(@),
                            !.running = @ \cup {Head(pool.pending)}]
    /\ UNCHANGED <<started, queue, records, missing, batch_size, first, last,
                   visited, paths_seen, times_selected, times_scored, tick, settings>>

WorkerFinish ==
    /\ pool.phase = "dispatched"
    /\ \E g \in pool.running :
        pool' = [pool EXCEPT
                    !.running = @ \ {g},
                    !.completed = Append(@, g),
                    !.outcome = [h \in DOMAIN pool.outcome \cup {g} |->
                                    IF h = g THEN g \notin pool.fails
                                    ELSE pool.outcome[h]]]
    /\ UNCHANGED <<started, queue, records, missing, batch_size, first, last,
                   visited, paths_seen, times_selected, times_scored, tick, settings>>

PoolReturn ==
    /\ pool.phase = "dispatched"
    /\ pool_joined(pool)
    /\ pool' = [pool EXCEPT !.phase = "returned", !.response = pool_response(pool)]
    /\ UNCHANGED <<started, queue, records, missing, batch_size, first, last,
                   visited, paths_seen, times_selected, times_scored, tick, settings>>

PoolNext == PoolDispatch \/ WorkerStart \/ WorkerFinish \/ PoolReturn

PoolSpec == Init /\ [][PoolNext]_vars

----------------------------------------------------------------------------
(* Vocabulary of the properties. *)
Ran == started /\ last.effect.path # "none"

Cursor == last.args.last_processed_group_id

Killed == Ran /\ (last.env.kill_global \/ last.env.kill_project)

(* The position call_next_backfill advances from: the invocation's index,  *)
(* a first invocation (None) standing at position 0.                       *)
Position(a) ==
    IF a.last_processed_project_index = None THEN 0
    ELSE a.last_processed_project_index[1]

CohortList(a) == cohort_projects(a.cohort)

HasNextProject(a) == ~Falsy(a.cohort) /\ Position(a) + 1 < Len(CohortList(a))

(* The exhaustion transition of an invocation: the next project of the     *)
(* cohort with a null group cursor, or nothing.                            *)
ExhaustionEnqueue(a, only_delete) ==
    IF HasNextProject(a)
    THEN <<TaskArgs(CohortList(a)[Position(a) + 2], None, a.cohort,
                    Some(Position(a) + 1), only_delete, a.enable_ingestion)>>
    ELSE <<>>

EnqueuesSameProject ==
    /\ last.effect.enqueued # <<>>
    /\ last.effect.enqueued[1].current_project_id = last.args.current_project_id
    /\ last.effect.enqueued[1].last_processed_group_id # None

Touched(S) == last.effect.reads \cap S # {}

----------------------------------------------------------------------------
(* C1: a chain started at the first project of its cohort with a null      *)
(* group cursor and a null project index, and met by no kill switch,       *)
(* feature error, missing project or similarity failure, ends having       *)
(* processed every project of the cohort's list once, in list order.       *)
StartsCohort ==
    /\ first.last_processed_group_id = None
    /\ first.last_processed_project_index = None
    /\ ~Falsy(first.cohort)
    /\ CohortList(first) # <<>>
    /\ first.current_project_id = CohortList(first)[1]

Stopped ==
    paths_seen \cap {"killswitch_enabled", "no_feature", "project_does_not_exist",
                     "seer_failed", "raised"} # {}

C1_CohortWalked ==
    (started /\ StartsCohort) ~> (Stopped \/ (queue = <<>> /\ visited = CohortList(first)))

(* C2: an empty page comes back with the input cursor unchanged, and the   *)
(* invocation then treats the project as exhausted: no further invocation  *)
(* for the same project, only the next project of the cohort or nothing.   *)
C2_EmptyPageExhausts ==
    last.effect.path = "no_groups" =>
        /\ last.effect.batch_end_id = Cursor
        /\ ~EnqueuesSameProject
        /\ last.effect.enqueued = ExhaustionEnqueue(last.args, FALSE)

(* C3: when the similarity response has success = false, no result is      *)
(* written to any group record, no continuation is enqueued and the        *)
(* failure is captured, in either execution mode.                          *)
SeerFailed == "seer" \in last.effect.reads /\ ~last.env.seer_success

C3_SeerFailureStops ==
    [][SeerFailed' =>
          /\ records' = records
          /\ last'.effect.written = {}
          /\ queue' = <<>>
          /\ last'.effect.enqueued = <<>>
          /\ last'.effect.captured
          /\ ~last'.effect.raised]_vars

C3_Witness ==
    /\ SeerFailed
    /\ last.effect.mode = "multithreaded"
    /\ HasNextProject(last.args)
    /\ Len(last.effect.sent) = 2

(* C4: when the project no longer exists the invocation does not fail,     *)
(* whatever the project index (None included): it selects, scores and      *)
(* writes nothing and continues as an exhausted project does.              *)
C4_MissingProjectContinues ==
    (Ran /\ ~Killed /\ last.env.init = "DoesNotExist") =>
        /\ ~last.effect.raised
        /\ ~Touched({"select", "snuba", "nodestore", "seer", "update", "delete"})
        /\ last.effect.written = {}
        /\ last.effect.enqueued = ExhaustionEnqueue(last.args, last.args.only_delete)

(* C5: with the global kill flag or the project's kill predicate tripped   *)
(* at its start, an invocation reads and writes no store and enqueues      *)
(* nothing, whatever its other arguments are.                              *)
C5_KillSwitchNoOp ==
    [][Killed' =>
          /\ records' = records
          /\ queue' = <<>>
          /\ last'.effect.reads \subseteq {"killswitch"}
          /\ last'.effect.page = <<>>
          /\ last'.effect.sent = <<>>
          /\ last'.effect.written = {}
          /\ last'.effect.deleted = {}
          /\ last'.effect.enqueued = <<>>]_vars

C5_Witness ==
    /\ Killed
    /\ last.env.kill_project /\ ~last.env.kill_global
    /\ last.args.only_delete
    /\ HasNextProject(last.args)
    /\ records \cap GroupsOf(last.args.current_project_id) # {}

(* C6: with only_delete, an invocation for an existing, enabled project    *)
(* deletes all grouping records of the project, selects, fetches, scores   *)
(* and writes nothing, and then follows the exhaustion transition with     *)
(* only_delete still true.                                                 *)
OnlyDeleteRan ==
    /\ Ran
    /\ last.args.only_delete
    /\ ~Killed
    /\ last.env.init = "ok"

C6_OnlyDelete ==
    [][OnlyDeleteRan' =>
          /\ records' = records \ GroupsOf(last'.args.current_project_id)
          /\ last'.effect.reads \cap {"select", "snuba", "nodestore", "seer", "update"} = {}
          /\ last'.effect.page = <<>>
          /\ last'.effect.sent = <<>>
          /\ last'.effect.written = {}
          /\ last'.effect.enqueued = ExhaustionEnqueue(last'.args, TRUE)
          /\ queue' = last'.effect.enqueued]_vars

C6_Witness ==
    /\ OnlyDeleteRan
    /\ Len(visited) = 2
    /\ last.effect.enqueued # <<>>
    /\ last.effect.enqueued[1].only_delete
    /\ last.effect.enqueued[1].last_processed_group_id = None

(* C7: when a project is exhausted and the position after the invocation's *)
(* index is at or past the end of the cohort's list, nothing is enqueued.  *)
Exhausted ==
    /\ Ran
    /\ ~last.effect.raised
    /\ \/ last.effect.path \in {"deleted_all_records", "project_does_not_exist"}
       \/ /\ last.effect.path \in {"no_groups", "no_snuba_rows",
                                   "no_nodestore_events", "updated"}
          /\ last.effect.batch_end_id = None

C7_EndOfCohort ==
    (Exhausted /\ ~Falsy(last.args.cohort)
               /\ Position(last.args) + 1 >= Len(CohortList(last.args))) =>
        last.effect.enqueued = <<>> /\ queue = <<>>

C7_Witness ==
    /\ Exhausted
    /\ CohortList(last.args) # <<>>
    /\ Position(last.args) + 1 > Len(CohortList(last.args))
    /\ queue = <<>>

(* C8: a chain that has run to termination without kill switch, feature    *)
(* error or similarity failure (and without deletion, missing project or   *)
(* write failure) has selected every ungrouped group of every visited      *)
(* project in exactly one batch, has scored none twice, and every group it *)
(* scored holds a result.                                                  *)
Undisturbed ==
    paths_seen \cap {"killswitch_enabled", "no_feature", "project_does_not_exist",
                     "seer_failed", "raised", "deleted_all_records",
                     "write_failed"} = {}

InitiallyUngrouped(g) == g \notin records \/ times_scored[g] > 0

C8_EveryGroupOnce ==
    (Ran /\ queue = <<>> /\ Undisturbed) =>
        \A p \in Range(visited) : \A g \in GroupsOf(p) :
            InitiallyUngrouped(g) =>
                /\ times_selected[g] = 1
                /\ times_scored[g] <= 1
                /\ times_scored[g] = 1 => g \in records

(* C9: within one project the pages of successive invocations ascend: a    *)
(* page holds at most batch_size ids, all greater than the invocation's    *)
(* cursor and in ascending order, none of them selected before in the      *)
(* chain, and the cursor after a non-empty page is that page's last id.    *)
Selects == "select" \in last.effect.reads

C9_PagesAscend ==
    [][Selects' =>
          LET page == last'.effect.page
              cursor == last'.args.last_processed_group_id
          IN  /\ Len(page) <= batch_size
              /\ \A i \in 1..Len(page) : cursor # None => page[i] > cursor[1]
              /\ \A i, j \in 1..Len(page) : i < j => page[i] < page[j]
              /\ \A g \in Range(page) : times_selected[g] = 0
              /\ (last.effect.continuation = "same_project" /\ last.effect.page # <<>>) =>
                    /\ cursor = Some(last.effect.page[Len(last.effect.page)])
                    /\ last'.args.current_project_id = last.args.current_project_id]_vars

C9_Witness ==
    /\ Selects
    /\ batch_size = 1
    /\ Cursor = Some(1)
    /\ last.effect.page = <<2>>
    /\ times_selected[1] = 1
    /\ times_selected[2] = 1

(* C10: every chain terminates: eventually an invocation enqueues nothing  *)
(* and no invocation is pending.                                           *)
C10_Terminates == started ~> (queue = <<>>)

(* C11: an invocation is idempotent: run a second time with the same       *)
(* arguments and the same reads, against the store as the first run left   *)
(* it, it enqueues the same continuation and writes the same records, and  *)
(* leaves the store as it found it.                                        *)
C11_Idempotent ==
    Ran =>
        LET again == backfill_seer_grouping_records_for_project(
                         last.args, last.env, records, batch_size)
        IN  /\ again.enqueued = last.effect.enqueued
            /\ again.written = last.effect.written
            /\ (records \ again.deleted) \cup again.written = records

(* C12: a batch that fails at the similarity service leaves nothing        *)
(* enqueued, and the task triggered again with the failed invocation's     *)
(* arguments resumes at the failed batch: it selects the page the failed   *)
(* run selected and, under the same event reads and a successful response, *)
(* sends the same groups, writes their results and enqueues the            *)
(* continuation at the page's last id, which is what the invocation does   *)
(* in a chain that never failed.                                           *)
Resumed == started /\ last.effect.path = "seer_failed" /\ queue # <<>>

C12_ResumesAtFailedBatch ==
    [][/\ (SeerFailed' /\ tick' # tick) => queue' = <<>>
       /\ (Resumed /\ tick' # tick) =>
             LET failed == last.effect
                 again == last'.effect
             IN  /\ last'.args = last.args
                 /\ "select" \in again.reads => again.page = failed.page
                 /\ ("seer" \in again.reads /\ last'.env.rows = last.env.rows
                                            /\ last'.env.blobs = last.env.blobs) =>
                        /\ again.sent = failed.sent
                        /\ last'.env.seer_success =>
                              /\ again.written = Range(failed.sent) \ last'.env.write_fail
                              /\ records' = records \cup again.written
                              /\ again.enqueued =
                                    <<TaskArgs(last.args.current_project_id,
                                               Some(failed.page[Len(failed.page)]),
                                               last.args.cohort,
                                               Some(Position(last.args)), FALSE,
                                               last.args.enable_ingestion)>>
                              /\ queue' = again.enqueued]_vars

C12_Witness ==
    /\ last.effect.path = "updated"
    /\ Len(last.effect.sent) = 2
    /\ last.effect.written = Range(last.effect.sent)
    /\ \A g \in Range(last.effect.sent) : times_scored[g] = 2
    /\ HasNextProject(last.args)

(* C13: a cohort walk stops before its cohort is exhausted only at an      *)
(* invocation that found the kill switch tripped at its start.             *)
StoppedBeforeEnd ==
    /\ Ran
    /\ ~Falsy(last.args.cohort)
    /\ queue = <<>>
    /\ last.effect.continuation # "end_of_list"

FeatureErrored == Ran /\ ~Killed /\ last.env.init = "FeatureError"

C14_FeatureErrorNoOp ==
    [][FeatureErrored' =>
          /\ records' = records
          /\ queue' = <<>>
          /\ last'.effect.reads \cap {"delete", "select", "snuba", "nodestore",
                                      "seer", "update"} = {}
          /\ last'.effect.page = <<>>
          /\ last'.effect.sent = <<>>
          /\ last'.effect.written = {}
          /\ last'.effect.deleted = {}
          /\ last'.effect.enqueued = <<>>
          /\ ~last'.effect.raised]_vars

C14_Witness ==
    /\ FeatureErrored
    /\ last.args.only_delete
    /\ HasNextProject(last.args)
    /\ Len(visited) = 2
    /\ records \cap GroupsOf(last.args.current_project_id) # {}
    /\ queue = <<>>

(* C15: when the write of one group's result fails during the result       *)
(* application, the results of the other scored groups are still written   *)
(* and the invocation still enqueues its continuation, for the same        *)
(* project with the batch's end id as the cursor.                          *)
WriteFailed == "update" \in last.effect.reads /\ last.env.write_fail # {}

C15_WriteFailureContinues ==
    [][WriteFailed' =>
          LET e == last'.effect
              a == last'.args
          IN  /\ e.written = Range(e.sent) \ last'.env.write_fail
              /\ records' = records \cup e.written
              /\ ~e.raised
              /\ e.enqueued = <<TaskArgs(a.current_project_id,
                                         Some(e.page[Len(e.page)]), a.cohort,
                                         Some(Position(a)), FALSE,
                                         a.enable_ingestion)>>
              /\ queue' = e.enqueued]_vars

C15_Witness ==
    /\ WriteFailed
    /\ last.effect.written # {}
    /\ last.effect.written # Range(last.effect.sent)
    /\ queue # <<>>
    /\ Head(queue).last_processed_group_id = Some(2)

(* C16: in worker-pool mode the similarity call returns only after every   *)
(* dispatched worker has finished, whatever the order of completion; when  *)
(* a worker failed, the response has success = false and the other workers *)
(* have run to completion all the same.                                    *)
PoolReturned == pool.phase = "returned"

C16_PoolWaitsForAll ==
    [][PoolReturned' =>
          /\ pool'.pending = <<>>
          /\ pool'.running = {}
          /\ Range(pool'.completed) = Range(pool'.groups)
          /\ Len(pool'.completed) = Len(pool'.groups)
          /\ DOMAIN pool'.outcome = Range(pool'.groups)
          /\ pool'.fails # {} => ~pool'.response.success]_vars

C16_Witness ==
    /\ PoolReturned
    /\ Len(pool.groups) = MaxGroup
    /\ Cardinality(pool.fails) = 1
    /\ pool.completed[1] \in pool.fails
    /\ pool.completed # pool.groups
    /\ ~pool.response.success

(* C17: for the same groups and the same per-group service outcomes, the   *)
(* worker-pool call returns the response of the sequential call (success,  *)
(* reason and scored groups), whatever the order the workers complete in,  *)
(* so that the invocation goes on from the same response in both modes.    *)
SequentialResponse ==
    seer_response(pool.groups,
                  [Quiet EXCEPT !.seer_success = (pool.fails = {})])

C17_ModesAgree == PoolReturned => pool.response = SequentialResponse

C17_Witness ==
    /\ PoolReturned
    /\ Len(pool.groups) = MaxGroup
    /\ pool.fails = {pool.groups[2]}
    /\ pool.completed[Len(pool.completed)] # pool.groups[2]
    /\ pool.completed[1] # pool.groups[1]
    /\ pool.response = SequentialResponse

(* C18: when a non-empty page is selected and none of its groups has both  *)
(* a row in the event index and an entry in the detail store, the          *)
(* invocation never calls the similarity service, writes no record, and    *)
(* enqueues a continuation for the same project with the page's last id as *)
(* the cursor.                                                             *)
AllFilteredOut ==
    /\ Selects
    /\ last.effect.page # <<>>
    /\ Range(last.effect.page) \cap last.env.rows \cap last.env.blobs = {}

C18_FilteredPageAdvances ==
    [][AllFilteredOut' =>
          LET e == last'.effect
              a == last'.args
          IN  /\ e.reads \cap {"seer", "update", "delete"} = {}
              /\ e.sent = <<>>
              /\ e.written = {}
              /\ records' = records
              /\ e.enqueued = <<TaskArgs(a.current_project_id,
                                         Some(e.page[Len(e.page)]), a.cohort,
                                         Some(Position(a)), FALSE,
                                         a.enable_ingestion)>>
              /\ queue' = e.enqueued]_vars

C18_Witness ==
    /\ AllFilteredOut
    /\ Len(last.effect.page) = 2
    /\ Len(last.effect.has_snuba_row) = 1
    /\ last.effect.group_hashes_dict = {}
    /\ queue # <<>>
    /\ Head(queue).last_processed_group_id = Some(2)
    /\ HasNextProject(last.args)

(* C19: when a project is exhausted and the cohort's list has a project    *)
(* after the invocation's position, the invocation enqueued is for the     *)
(* list's element at that next position, with a null group cursor, the     *)
(* project index one higher and the same cohort; from one invocation of a  *)
(* chain to the next the project index stays or grows by one, and it grows *)
(* exactly when the chain moves to the next project.                       *)
C19_CohortAdvances ==
    [][tick' # tick =>
          LET a == last'.args
              e == last'.effect
          IN  /\ (Exhausted' /\ HasNextProject(a)) =>
                    /\ Len(e.enqueued) = 1
                    /\ e.enqueued[1].current_project_id =
                           CohortList(a)[(Position(a) + 1) + 1]
                    /\ e.enqueued[1].last_processed_group_id = None
                    /\ e.enqueued[1].last_processed_project_index =
                           Some(Position(a) + 1)
                    /\ e.enqueued[1].cohort = a.cohort
                    /\ queue' = e.enqueued
              /\ Position(a) = Position(last.args) +
                     (IF last.effect.continuation = "next_project" THEN 1 ELSE 0)]_vars

C19_Witness ==
    /\ Exhausted
    /\ HasNextProject(last.args)
    /\ Position(last.args) = 1
    /\ Len(visited) = 2
    /\ queue # <<>>
    /\ Head(queue).current_project_id = 3
    /\ Head(queue).last_processed_project_index = Some(2)

(* C20: every group sent to the similarity service was selected in this    *)
(* invocation's page, has a row in the event index and an entry in         *)
(* group_hashes_dict; the list sent is in the order of the page; and       *)
(* update_groups is handed that same list, so that no group outside it is  *)
(* written.                                                                *)
Scores == "seer" \in last.effect.reads

C20_SentGroupsResolved ==
    Scores =>
        LET e == last.effect
        IN  /\ \A i \in 1..Len(e.sent) :
                  /\ e.sent[i] \in Range(e.page)
                  /\ e.sent[i] \in last.env.rows
                  /\ e.sent[i] \in e.group_hashes_dict
                  /\ e.sent[i] \in last.env.blobs
            /\ \A i, j \in 1..Len(e.sent) :
                  i < j => \E k, l \in 1..Len(e.page) :
                              k < l /\ e.page[k] = e.sent[i] /\ e.page[l] = e.sent[j]
            /\ "update" \in e.reads =>
                  /\ e.applied = e.sent
                  /\ e.written \subseteq Range(e.sent)

C20_Witness ==
    /\ Scores
    /\ last.effect.path = "updated"
    /\ Len(last.effect.page) = 2
    /\ Len(last.effect.has_snuba_row) = 2
    /\ last.effect.sent = <<last.effect.page[2]>>
    /\ last.effect.written = Range(last.effect.sent)

(* C21: every invocation enqueues at most one continuation, on every path  *)
(* of the task; so a chain started by one invocation never has two         *)
(* invocations pending, and the invocation pending is the one the last     *)
(* invocation enqueued: no two projects of a cohort are in work at once.   *)
C21_OneContinuation ==
    [][tick' # tick =>
          /\ Len(last'.effect.enqueued) <= 1
          /\ Len(queue) = 1
          /\ queue' = last'.effect.enqueued
          /\ Len(queue') <= 1]_vars

C21_Witness ==
    /\ Ran
    /\ Len(visited) = 2
    /\ last.effect.path = "updated"
    /\ Len(queue) = 1
    /\ Head(queue).current_project_id = last.args.current_project_id

(* C22: an invocation enqueues its continuation as its last step, after    *)
(* the selection, the event fetch, the scoring and the write-back of the   *)
(* batch: an invocation stopped before its last step has enqueued nothing, *)
(* so that no invocation is pending whose cursor lies beyond a batch that  *)
(* was left half done.                                                     *)
Aborted == started /\ last.effect.path = "aborted"

C22_ContinuationLast ==
    [][/\ Aborted' /\ tick' # tick =>
             /\ last'.effect.enqueued = <<>>
             /\ queue' = <<>>
       /\ (tick' # tick /\ queue' # <<>>) =>
             LET st == stages(last'.effect)
             IN  /\ ~Aborted'
                 /\ st[Len(st)] = "enqueue"
                 /\ "update" \in last'.effect.reads =>
                        last'.effect.written \subseteq records']_vars

C22_Witness ==
    /\ Aborted
    /\ "seer" \in last.effect.reads
    /\ Len(last.effect.sent) = 2
    /\ Cardinality(last.effect.written) = 1
    /\ records \cap Range(last.effect.sent) = last.effect.written
    /\ queue = <<>>

(* C23: the project list of a named cohort is resolved once per chain:     *)
(* when the list configured for the name changes while the chain runs, the *)
(* chain still visits the projects of the list as it was when the chain    *)
(* started, in that list's order.                                          *)
ListAtStart == SIMILARITY_BACKFILL_COHORT_MAP[first.cohort.name]

StartsNamedCohort ==
    /\ started
    /\ first.cohort.kind = "name"
    /\ first.cohort.name \in DOMAIN SIMILARITY_BACKFILL_COHORT_MAP
    /\ first.last_processed_project_index = None
    /\ first.current_project_id = ListAtStart[1]

C23_ListResolvedOnce ==
    StartsNamedCohort =>
        /\ Len(visited) <= Len(ListAtStart)
        /\ \A i \in 1..Len(visited) : visited[i] = ListAtStart[i]

(* C24: a continuation enqueued for the same project (non-null cursor)     *)
(* carries current_project_id, cohort and last_processed_project_index as  *)
(* the invocation got them and changes the group cursor only; and every    *)
(* invocation enqueued along a chain has the cohort, only_delete and       *)
(* enable_ingestion of the chain's first invocation.                       *)
SameProjectFrame(index_kept(_, _)) ==
    tick' # tick =>
        LET a == last'.args
            e == last'.effect
        IN  /\ (e.enqueued # <<>> /\ e.enqueued[1].last_processed_group_id # None) =>
                  /\ e.enqueued[1].current_project_id = a.current_project_id
                  /\ e.enqueued[1].cohort = a.cohort
                  /\ index_kept(a, e.enqueued[1])
                  /\ e.enqueued[1].last_processed_group_id = e.batch_end_id
            /\ \A i \in 1..Len(queue') :
                  /\ queue'[i].cohort = first.cohort
                  /\ queue'[i].only_delete = first.only_delete
                  /\ queue'[i].enable_ingestion = first.enable_ingestion

IndexUnchanged(a, b) == b.last_processed_project_index = a.last_processed_project_index

C24_SameProjectFrame == [][SameProjectFrame(IndexUnchanged)]_vars

(* C24, amended: as C24, the project index being carried on as the same    *)
(* position of the cohort: an integer index unchanged, a null index as 0.  *)
PositionUnchanged(a, b) ==
    /\ b.last_processed_project_index = Some(Position(a))
    /\ a.last_processed_project_index # None => IndexUnchanged(a, b)

C24_SameProjectFrameByPosition == [][SameProjectFrame(PositionUnchanged)]_vars

C24_Witness ==
    /\ Ran
    /\ last.args.last_processed_project_index = None
    /\ last.args.enable_ingestion
    /\ last.args.cohort = NamedCohort("cohort_a")
    /\ queue # <<>>
    /\ Head(queue) = [last.args EXCEPT !.last_processed_group_id = Some(2),
                                       !.last_processed_project_index = Some(0)]

(* C25: without a cohort, what an invocation does is independent of        *)
(* last_processed_project_index: run with any other index (an integer or   *)
(* None) against the same stores, it returns from the same branch, reads,  *)
(* writes and deletes the same, ends the same way (returned or raised) and *)
(* enqueues the same (project, cursor) pairs, a missing project included.  *)
Indexes == {None} \cup {Some(i) : i \in 0..MaxProject}

Pairs(enqueued) ==
    [i \in 1..Len(enqueued) |->
        <<enqueued[i].current_project_id, enqueued[i].last_processed_group_id>>]

SameBehaviour(e, f) ==
    /\ e.path = f.path
    /\ e.reads = f.reads
    /\ e.page = f.page
    /\ e.sent = f.sent
    /\ e.written = f.written
    /\ e.deleted = f.deleted
    /\ e.raised = f.raised
    /\ e.captured = f.captured
    /\ Pairs(e.enqueued) = Pairs(f.enqueued)

C25_IndexIrrelevant ==
    [][(tick' # tick /\ last'.args.cohort = NoCohort) =>
          \A i \in Indexes :
              SameBehaviour(last'.effect,
                            backfill_seer_grouping_records_for_project(
                                [last'.args EXCEPT !.last_processed_project_index = i],
                                last'.env, records, batch_size))]_vars

(* C26: when the cohort is a name the registry does not hold, or an empty  *)
(* list of ids, the chain stays on current_project_id, and when that       *)
(* project is exhausted it ends, enqueuing no other project and raising no *)
(* error: the unknown name resolves to the empty list, which has no next   *)
(* project, and the empty list counts as no cohort.                        *)
UnknownName(cohort) ==
    cohort.kind = "name" /\ cohort.name # "" /\ cohort.name \notin DOMAIN settings

NoProjects(cohort) == UnknownName(cohort) \/ cohort = ListCohort(<<>>)

C26_UnresolvedCohortEnds ==
    [][(tick' # tick /\ NoProjects(first.cohort)) =>
          /\ last'.args.current_project_id = first.current_project_id
          /\ last'.args.cohort = first.cohort
          /\ \A i \in 1..Len(queue') :
                queue'[i].current_project_id = first.current_project_id
          /\ Exhausted' =>
                /\ last'.effect.enqueued = <<>>
                /\ queue' = <<>>
                /\ ~last'.effect.raised
                /\ last'.effect.continuation =
                       (IF UnknownName(first.cohort) THEN "end_of_list"
                        ELSE "no_cohort")]_vars

C26_Witness ==
    /\ Exhausted
    /\ first.cohort = NamedCohort("unknown")
    /\ last.effect.path = "no_groups"
    /\ last.effect.continuation = "end_of_list"
    /\ last.args.last_processed_project_index = None
    /\ queue = <<>>

====
